---- MODULE Spec2Model ----
(***************************************************************************)
(* A model of rust-container-builder: the reference resolver               *)
(* (main.rs extract_registry_url, registry_client.rs parse_image_name),    *)
(* the layer store and the image records (storage/mod.rs), build_image     *)
(* (engine/mod.rs), the Dockerfile parser (dockerfile/mod.rs) and the OCI  *)
(* Distribution push / pull client (registry_client.rs).                   *)
(*                                                                         *)
(* Text is a sequence of tokens.  A token is one of the characters the     *)
(* code looks at ("/", ":", ".", "_") or a maximal run of other            *)
(* characters (a word such as "localhost" or "5000"), so that              *)
(* contains / split / starts_with / replace on a Rust string are the same  *)
(* operations on its token sequence.                                       *)
(*                                                                         *)
(* Bytes are sequences of small integers.                                  *)
(***************************************************************************)
EXTENDS Integers, Sequences, FiniteSets, TLC

VARIABLES
    reference,      \* the image_name argument of the running command
    resolved,       \* <<>> or <<[registry_url, repo, tag]>>: what the command resolved it to
    pc,             \* position of the running command
    idx,            \* 1-based position of the layer loop of push_image / pull_image
    reqs,           \* the HTTP requests issued by the running command, with their responses
    location,       \* <<>> or <<loc>>: the location header of the last upload initiation
    err,            \* "none" or the error the running command returned
    layerFiles,     \* the files under layers/: layer id -> stored bytes
    final_layers,   \* build_image's final_layers vector
    image,          \* the Image the last build returned
    regBlobs,       \* digests of the blobs the registry has accepted so far
    manifest,       \* <<>> or <<m>>: the manifest pull_image parsed
    outDirExists,   \* whether pull's output directory exists
    outFiles,       \* the files of the output directory: file name -> bytes
    images,         \* the directories under images/: image id -> the files save_image wrote
    imagesDir,      \* whether the images/ directory itself exists
    saved,          \* image id -> the Image object save_image was last given for it
    result,         \* the last storage or parser call and what it returned
    writing,        \* <<>> or <<w>>: the file write create_layer is in the middle of
    dockerfile      \* the lines of the Dockerfile given to DockerfileParser::parse

vars == <<reference, resolved, pc, idx, reqs, location, err, layerFiles,
          final_layers, image, regBlobs, manifest, outDirExists, outFiles,
          images, imagesDir, saved, result, writing, dockerfile>>

\* What the registry client never touches: the image records, the last
\* storage call, the write in progress, the Dockerfile.
storeVars == <<images, imagesDir, saved, result, writing, dockerfile>>

-----------------------------------------------------------------------------
(* Bounds of the model.                                                    *)

\* Longest reference (in tokens) that the resolver is run on exhaustively.
MaxRefLen == 5

\* Most layers of one image (build) and of one served manifest (pull).
MaxLayers == 2

\* Most layer files the store ever holds.
MaxFiles == 3

\* Most images build_image makes.
MaxImages == 2

\* Longest Dockerfile (in lines) that the parser is run on.
MaxLines == 4

-----------------------------------------------------------------------------
(* Rust string operations, on token sequences.                             *)

Contains(s, c) == \E i \in 1..Len(s) : s[i] = c

\* str::find(c): the first position of c, 0 standing for None.
Find(s, c) ==
    IF Contains(s, c) THEN CHOOSE i \in 1..Len(s) : s[i] = c /\ \A j \in 1..(i-1) : s[j] # c
    ELSE 0

\* str::rfind(c): the last position of c, 0 standing for None.
RFind(s, c) ==
    IF Contains(s, c) THEN CHOOSE i \in 1..Len(s) : s[i] = c /\ \A j \in (i+1)..Len(s) : s[j] # c
    ELSE 0

StartsWith(s, p) == Len(p) <= Len(s) /\ SubSeq(s, 1, Len(p)) = p

\* s.splitn(2, c).collect(): one part when c does not occur, else the text
\* before the first c and the text after it.
SplitN2(s, c) ==
    IF Contains(s, c)
    THEN <<SubSeq(s, 1, Find(s, c) - 1), SubSeq(s, Find(s, c) + 1, Len(s))>>
    ELSE <<s>>

\* s.rsplitn(2, c).collect(): one part when c does not occur, else the text
\* after the last c FIRST and the text before it second.
RSplitN2(s, c) ==
    IF Contains(s, c)
    THEN <<SubSeq(s, RFind(s, c) + 1, Len(s)), SubSeq(s, 1, RFind(s, c) - 1)>>
    ELSE <<s>>

\* s.trim_end_matches(c)
RECURSIVE TrimEndMatches(_, _)
TrimEndMatches(s, c) ==
    IF Len(s) > 0 /\ s[Len(s)] = c THEN TrimEndMatches(SubSeq(s, 1, Len(s) - 1), c) ELSE s

\* s.trim_start_matches(c)
RECURSIVE TrimStartMatches(_, _)
TrimStartMatches(s, c) ==
    IF Len(s) > 0 /\ s[1] = c THEN TrimStartMatches(SubSeq(s, 2, Len(s)), c) ELSE s

\* The token that stands for white space.
Space == " "

\* s.trim(): white space off both ends
Trim(s) == TrimStartMatches(TrimEndMatches(s, Space), Space)

\* s.replace(from, to) for one-character patterns
Replace(s, from, to) == [i \in 1..Len(s) |-> IF s[i] = from THEN to ELSE s[i]]

-----------------------------------------------------------------------------
(* String literals of the source.                                          *)

HttpScheme == <<"http", ":", "/", "/">>
HttpsScheme == <<"https", ":", "/", "/">>
LocalhostPrefix == <<"localhost", ":">>
LoopbackPrefix == <<"127", ".", "0", ".", "0", ".", "1", ":">>
DockerHub == <<"https", ":", "/", "/", "registry-1", ".", "docker", ".", "io">>
LatestTag == <<"latest">>
LibraryPrefix == <<"library", "/">>

-----------------------------------------------------------------------------
(* The reference resolver.                                                 *)

\* main.rs extract_registry_url
extract_registry_url(image_name) ==
    IF Contains(image_name, "/")
    THEN LET parts == SplitN2(image_name, "/")
             host_part == parts[1]
         IN  IF Contains(host_part, ".") \/ Contains(host_part, ":")
             THEN IF StartsWith(host_part, HttpScheme) \/ StartsWith(host_part, HttpsScheme)
                  THEN host_part
                  ELSE IF StartsWith(host_part, LocalhostPrefix)
                          \/ StartsWith(host_part, LoopbackPrefix)
                       THEN HttpScheme \o host_part
                       ELSE HttpsScheme \o host_part
             ELSE DockerHub
    ELSE DockerHub

\* parse_image_name with the tag cut at the FIRST ':' (a faulty variant).
parse_image_name_first_colon(image_name) ==
    LET parts == SplitN2(image_name, ":")
        tag == IF Len(parts) = 2 THEN parts[2] ELSE LatestTag
        repo == IF Len(parts) = 2 THEN parts[1] ELSE image_name
        repo_parts == SplitN2(repo, "/")
    IN  IF Len(repo_parts) = 1
           \/ (~Contains(repo_parts[1], ".") /\ ~Contains(repo_parts[1], ":"))
        THEN [ok |-> TRUE, repo |-> LibraryPrefix \o repo, tag |-> tag]
        ELSE [ok |-> TRUE, repo |-> repo_parts[2], tag |-> tag]

\* registry_client.rs RegistryClient::parse_image_name.  The Result it
\* returns is Ok on every path: ok is TRUE in both branches.
parse_image_name(image_name) ==
    LET parts == RSplitN2(image_name, ":")
        tag == IF Len(parts) = 2 THEN parts[1] ELSE LatestTag
        repo == IF Len(parts) = 2 THEN parts[2] ELSE image_name
        repo_parts == SplitN2(repo, "/")
    IN  IF Len(repo_parts) = 1
           \/ (~Contains(repo_parts[1], ".") /\ ~Contains(repo_parts[1], ":"))
        THEN [ok |-> TRUE, repo |-> LibraryPrefix \o repo, tag |-> tag]
        ELSE [ok |-> TRUE, repo |-> repo_parts[2], tag |-> tag]

\* RegistryClient::new: the registry url loses its trailing slashes.
RegistryClientNew(registry_url) == TrimEndMatches(registry_url, "/")

\* What push_command / pull_command turn a reference into: the client's
\* registry url, and the (repo, tag) push_image / pull_image parse.
Resolve(image_name) ==
    LET p == parse_image_name(image_name)
    IN  [ok |-> p.ok,
         registry_url |-> RegistryClientNew(extract_registry_url(image_name)),
         repo |-> p.repo,
         tag |-> p.tag]

-----------------------------------------------------------------------------
(* Bytes, digests, compression.                                            *)

\* The byte strings create_layer is given and the registry serves.
Data == {<<>>, <<1>>}

\* flate2 GzEncoder: the gzip magic number, the deflated payload, the
\* trailer carrying the input's length.  Never the input itself.
Gzip(data) == <<31, 139>> \o data \o <<Len(data)>>

\* format!("sha256:{:x}", Sha256(bytes)): one hex word per byte string
\* (the hash is taken to be collision free).
Sha256(bytes) == <<"sha256", ":", ToString(bytes)>>

-----------------------------------------------------------------------------
(* storage/mod.rs                                                          *)

\* uuid::Uuid::new_v4(): an id no stored layer has.
NewUuid == Len(layerFiles) + 1

\* StorageManager::create_layer: the Layer returned and the bytes written
\* to layers/<id>.tar.gz (the path is the id).
create_layer(data, layer_id) ==
    [layer |-> [id |-> layer_id,
                digest |-> Sha256(data),
                size |-> Len(data),
                path |-> layer_id],
     compressed_data |-> Gzip(data)]

\* An images/ directory without entries.
NoImages == [id \in {} |-> <<>>]

\* Nothing was called yet.  Of a call: op its name, arg its argument, ok
\* whether it returned Ok, ret the Option or value it returned (<<>>: None).
NoResult == [op |-> "none", arg |-> <<>>, ok |-> TRUE, ret |-> <<>>]

Returned(op, arg, ok, ret) == [op |-> op, arg |-> arg, ok |-> ok, ret |-> ret]

\* serde_json::to_string_pretty(doc): the document's text.
ToStringPretty(doc) == <<"json", doc>>

\* serde_json::from_str(text): the document of a text that is one.
FromStr(text) ==
    IF Len(text) = 2 /\ text[1] = "json" THEN [ok |-> TRUE, value |-> text[2]]
    ELSE [ok |-> FALSE, value |-> <<>>]

\* StorageManager::save_image: images/<id>/ with config.json, manifest.json
\* and name.txt.  The layer list is written nowhere.
save_image(dirs, img) ==
    [id \in DOMAIN dirs \cup {img.id} |->
        IF id = img.id
        THEN [config_json |-> ToStringPretty(img.config),
              manifest_json |-> ToStringPretty(img.manifest),
              name_txt |-> img.name]
        ELSE dirs[id]]

\* An Err(..) a storage call returns.
StorageErr == [ok |-> FALSE, ret |-> <<>>]

\* StorageManager::get_image.  images_dir.join("") is images_dir itself: it
\* exists and holds no config.json, the read fails.
get_image(dirs, id) ==
    IF id = <<>> THEN StorageErr
    ELSE IF id \notin DOMAIN dirs THEN [ok |-> TRUE, ret |-> <<>>]
    ELSE LET config == FromStr(dirs[id].config_json)
             mf == FromStr(dirs[id].manifest_json)
         IN  IF ~config.ok \/ ~mf.ok THEN StorageErr
             ELSE [ok |-> TRUE,
                   ret |-> <<[id |-> id,
                              name |-> id,
                              layers |-> <<>>,
                              config |-> config.value,
                              manifest |-> mf.value]>>]

\* StorageManager::list_images: the entries of images/ in the order read_dir
\* yields them, which is any order.
list_images(dirs) ==
    {order \in [1..Cardinality(DOMAIN dirs) -> DOMAIN dirs] :
        \A i, j \in 1..Cardinality(DOMAIN dirs) : order[i] = order[j] => i = j}

\* StorageManager::get_image_by_name, image_ids being what list_images
\* returned: the first id whose trimmed name.txt is the name; failing that,
\* for a name that has a ':' after its last '/', the first image listed.
get_image_by_name(dirs, name, image_ids) ==
    LET matching == {i \in 1..Len(image_ids) : Trim(dirs[image_ids[i]].name_txt) = name}
        first_match == CHOOSE i \in matching : \A j \in matching : i <= j
        image_id == SubSeq(name, RFind(name, "/") + 1, Len(name))
        id_part == SubSeq(image_id, 1, Find(image_id, ":") - 1)
    IN  IF matching # {} THEN get_image(dirs, image_ids[first_match])
        ELSE IF Contains(name, "/") /\ Contains(image_id, ":")
                /\ get_image(dirs, id_part).ok /\ Len(image_ids) > 0
             THEN get_image(dirs, image_ids[1])
             ELSE [ok |-> TRUE, ret |-> <<>>]

\* StorageManager::remove_image: remove_dir_all(images_dir.join(id)) when
\* that path exists.  images_dir.join("") is images_dir itself: the whole
\* directory goes.
remove_image(dirs, id) ==
    IF id = <<>> THEN NoImages ELSE [i \in DOMAIN dirs \ {id} |-> dirs[i]]

-----------------------------------------------------------------------------
(* engine/mod.rs build_image, the instructions not executed.              *)

\* The configuration document build_image gives every image.
BuildConfig == "config"

\* serde_json::to_vec(config)
SerdeToVec(config) == IF config = BuildConfig THEN <<7>> ELSE <<>>

Ended == pc \in {"idle", "done", "failed"}

\* build_image starts: let mut final_layers = Vec::new()
BuildStart ==
    /\ Ended
    /\ Cardinality(DOMAIN images) < MaxImages
    /\ pc' = "building"
    /\ final_layers' = <<>>
    /\ reqs' = <<>>
    /\ err' = "none"
    /\ UNCHANGED storeVars
    /\ UNCHANGED <<reference, resolved, idx, location, layerFiles, image, regBlobs,
                   manifest, outDirExists, outFiles>>

\* One turn of build_image's instruction loop: create_layer, then push.
BuildLayer(data) ==
    /\ pc = "building"
    /\ Len(final_layers) < MaxLayers
    /\ Len(layerFiles) < MaxFiles
    /\ LET made == create_layer(data, NewUuid)
       IN  /\ layerFiles' = Append(layerFiles, made.compressed_data)
           /\ final_layers' = Append(final_layers, made.layer)
    /\ UNCHANGED storeVars
    /\ UNCHANGED <<reference, resolved, pc, idx, reqs, location, err, image, regBlobs,
                   manifest, outDirExists, outFiles>>

\* format!("image_{}", uuid::Uuid::new_v4()): an id no stored image has.
NewImageId == <<"image", "_", ToString(Cardinality(DOMAIN images) + 1)>>

\* The bytes of build_image's config_json literal (not those serde_json
\* writes for the parsed configuration).
ConfigJsonLiteral == <<8, 8>>

\* build_image's manifest_json: the config descriptor and "layers": [].
BuildManifest ==
    [schema_version |-> 2,
     media_type |-> "ImageManifest",
     config |-> [media_type |-> "ImageConfig", size |-> Len(ConfigJsonLiteral),
                 digest |-> Sha256(ConfigJsonLiteral)],
     layers |-> <<>>]

\* build_image makes the Image, saves it and returns it.
BuildFinish(image_name) ==
    /\ pc = "building"
    /\ LET img == [id |-> NewImageId,
                   name |-> image_name,
                   layers |-> final_layers,
                   config |-> BuildConfig,
                   manifest |-> BuildManifest]
       IN  /\ image' = <<img>>
           /\ images' = save_image(images, img)
           /\ saved' = [id \in DOMAIN saved \cup {img.id} |->
                           IF id = img.id THEN img ELSE saved[id]]
    /\ imagesDir' = TRUE
    /\ pc' = "idle"
    /\ UNCHANGED <<result, writing, dockerfile>>
    /\ UNCHANGED <<reference, resolved, idx, reqs, location, err, layerFiles,
                   final_layers, regBlobs, manifest, outDirExists, outFiles>>

-----------------------------------------------------------------------------
(* registry_client.rs: requests and urls.                                  *)

NoBytes == <<>>

\* A request and, once it came back, its response.  digest is the query
\* parameter (<<>>: none), body the bytes sent, doc the manifest sent
\* (<<>>: none), status "pending" | "ok" (2xx) | "bad" (any other status) |
\* "neterr" (send() failed).  Of a 2xx response: loc is the location header
\* (<<>>: none), served the body's bytes, rdoc the body as a manifest
\* document (<<>>: the body is none).
Request(method, url, digest, body, doc) ==
    [method |-> method, url |-> url, digest |-> digest, body |-> body, doc |-> doc,
     status |-> "pending", loc |-> <<>>, served |-> <<>>, rdoc |-> <<>>]

Outcomes == {"ok", "bad", "neterr"}

\* The in-flight request, answered.
Answered(outcome, loc, served, rdoc) ==
    [reqs EXCEPT ![Len(reqs)].status = outcome,
                 ![Len(reqs)].loc = IF outcome = "ok" THEN loc ELSE <<>>,
                 ![Len(reqs)].served = IF outcome = "ok" THEN served ELSE <<>>,
                 ![Len(reqs)].rdoc = IF outcome = "ok" THEN rdoc ELSE <<>>]

LastReq == reqs[Len(reqs)]

V2(registry_url, repo) == registry_url \o <<"/", "v2", "/">> \o repo

\* upload_layer: format!("{}/v2/{}/blobs/uploads/", ...)
LayerUploadUrl(registry_url, repo) ==
    V2(registry_url, repo) \o <<"/", "blobs", "/", "uploads", "/">>

\* upload_config: format!("{}/v2/{}/blobs/uploads", ...), no trailing slash
ConfigUploadUrl(registry_url, repo) ==
    V2(registry_url, repo) \o <<"/", "blobs", "/", "uploads">>

\* format!("{}/v2/{}/manifests/{}", ...)
ManifestUrl(registry_url, repo, tag) ==
    V2(registry_url, repo) \o <<"/", "manifests", "/">> \o tag

\* format!("{}/v2/{}/blobs/{}", ...)
BlobUrl(registry_url, repo, digest) ==
    V2(registry_url, repo) \o <<"/", "blobs", "/">> \o digest

\* The location headers a registry answers an upload initiation with:
\* none, a relative one, an absolute one.
NoLocation == <<>>
Locations == {<<"/", "v2", "/", "upload", "/", "u1">>,
              <<"http", ":", "/", "/", "cdn", "/", "u1">>}

\* location.starts_with("http"): the words that start with these letters
StartsWithHttp(loc) == Len(loc) > 0 /\ loc[1] \in {"http", "https"}

\* The location always taken to be relative (a faulty variant).
AbsoluteLocationAlwaysJoined(registry_url, loc) == registry_url \o loc

\* "Construct absolute URL if location is relative"
AbsoluteLocation(registry_url, loc) ==
    IF StartsWithHttp(loc) THEN loc ELSE registry_url \o loc

R == resolved[1]
Img == image[1]

\* CheckStatus with the status not looked at (a faulty variant).
CheckStatusIgnored(outcome, next, failure) == [pc |-> next, err |-> "none"]

\* let response = ...send().await?; if !status.is_success() { return Err(..) }
CheckStatus(outcome, next, failure) ==
    IF outcome = "ok" THEN [pc |-> next, err |-> "none"]
    ELSE IF outcome = "bad" THEN [pc |-> "failed", err |-> failure]
    ELSE [pc |-> "failed", err |-> "transport error"]

-----------------------------------------------------------------------------
(* registry_client.rs: push.                                               *)

\* The references the push and pull commands are run with.
CommandRefs == {<<"localhost", ":", "5000", "/", "myimage", ":", "v2">>,
                <<"myimage">>}

Descriptor(media_type, size, digest) ==
    [media_type |-> media_type, size |-> size, digest |-> digest]

\* create_manifest with the layer descriptors in reverse order (a faulty
\* variant).
create_manifest_reversed(config, layers, config_digest) ==
    [schema_version |-> 2,
     media_type |-> "ImageManifest",
     config |-> Descriptor("ImageConfig", Len(SerdeToVec(config)), config_digest),
     layers |-> [i \in 1..Len(layers) |->
                    Descriptor("ImageLayerGzip", layers[Len(layers) + 1 - i].size,
                               layers[Len(layers) + 1 - i].digest)]]

\* RegistryClient::create_manifest
create_manifest(config, layers, config_digest) ==
    [schema_version |-> 2,
     media_type |-> "ImageManifest",
     config |-> Descriptor("ImageConfig", Len(SerdeToVec(config)), config_digest),
     layers |-> [i \in 1..Len(layers) |->
                    Descriptor("ImageLayerGzip", layers[i].size, layers[i].digest)]]

\* push_image with the config upload left out (a faulty variant).
PushStepNoConfig(i, n) == IF i <= n THEN "upload_layer" ELSE "upload_manifest"

\* push_image's order: the layer loop from layer i on (n layers), then the
\* config, then the manifest.
PushStep(i, n) == IF i <= n THEN "upload_layer" ELSE "upload_config"

\* push_image starts: parse_image_name, then the layer loop.
PushImage(image_name) ==
    /\ Ended
    /\ image # <<>>
    /\ reference' = image_name
    /\ resolved' = <<Resolve(image_name)>>
    /\ reqs' = <<>>
    /\ err' = "none"
    /\ location' = <<>>
    /\ idx' = 1
    /\ pc' = PushStep(1, Len(Img.layers))
    /\ UNCHANGED storeVars
    /\ UNCHANGED <<layerFiles, final_layers, image, regBlobs, manifest, outDirExists, outFiles>>

\* upload_layer, step 1: POST to the upload initiation endpoint.
UploadLayerPost ==
    /\ pc = "upload_layer"
    /\ reqs' = Append(reqs, Request("POST", LayerUploadUrl(R.registry_url, R.repo),
                                    <<>>, NoBytes, <<>>))
    /\ pc' = "layer_post_wait"
    /\ UNCHANGED storeVars
    /\ UNCHANGED <<reference, resolved, idx, location, err, layerFiles, final_layers, image,
                   regBlobs, manifest, outDirExists, outFiles>>

\* What follows an upload initiation's response: the status check, then the
\* location header, made absolute.
Initiated(outcome, loc, next, failure) ==
    LET c == CheckStatus(outcome, next, failure)
    IN  IF c.pc = "failed" THEN [pc |-> c.pc, err |-> c.err, location |-> <<>>]
        ELSE IF loc = NoLocation
             THEN [pc |-> "failed", err |-> "Missing location header", location |-> <<>>]
             ELSE [pc |-> c.pc, err |-> c.err,
                   location |-> <<AbsoluteLocation(R.registry_url, loc)>>]

UploadLayerPostResp(outcome, loc) ==
    /\ pc = "layer_post_wait"
    /\ reqs' = Answered(outcome, IF loc = NoLocation THEN <<>> ELSE <<loc>>, <<>>, <<>>)
    /\ LET c == Initiated(outcome, loc, "layer_put", "Failed to initiate upload")
       IN  /\ pc' = c.pc
           /\ err' = c.err
           /\ location' = c.location
    /\ UNCHANGED storeVars
    /\ UNCHANGED <<reference, resolved, idx, layerFiles, final_layers, image, regBlobs,
                   manifest, outDirExists, outFiles>>

\* upload_layer, step 2: read the layer's file, PUT it to the location with
\* the layer's digest as the query.
UploadLayerPut ==
    /\ pc = "layer_put"
    /\ LET layer == Img.layers[idx]
           layer_data == layerFiles[layer.path]
       IN  reqs' = Append(reqs, Request("PUT", location[1], layer.digest, layer_data, <<>>))
    /\ pc' = "layer_put_wait"
    /\ UNCHANGED storeVars
    /\ UNCHANGED <<reference, resolved, idx, location, err, layerFiles, final_layers, image,
                   regBlobs, manifest, outDirExists, outFiles>>

UploadLayerPutResp(outcome) ==
    /\ pc = "layer_put_wait"
    /\ reqs' = Answered(outcome, <<>>, <<>>, <<>>)
    /\ LET c == CheckStatus(outcome, PushStep(idx + 1, Len(Img.layers)),
                            "Failed to upload layer")
       IN  /\ pc' = c.pc
           /\ err' = c.err
    /\ idx' = idx + 1
    /\ regBlobs' = IF outcome = "ok" THEN regBlobs \cup {LastReq.digest} ELSE regBlobs
    /\ UNCHANGED storeVars
    /\ UNCHANGED <<reference, resolved, location, layerFiles, final_layers, image,
                   manifest, outDirExists, outFiles>>

\* upload_config: serialise, digest, POST to the upload initiation endpoint.
UploadConfigPost ==
    /\ pc = "upload_config"
    /\ reqs' = Append(reqs, Request("POST", ConfigUploadUrl(R.registry_url, R.repo),
                                    <<>>, NoBytes, <<>>))
    /\ pc' = "config_post_wait"
    /\ UNCHANGED storeVars
    /\ UNCHANGED <<reference, resolved, idx, location, err, layerFiles, final_layers, image,
                   regBlobs, manifest, outDirExists, outFiles>>

UploadConfigPostResp(outcome, loc) ==
    /\ pc = "config_post_wait"
    /\ reqs' = Answered(outcome, IF loc = NoLocation THEN <<>> ELSE <<loc>>, <<>>, <<>>)
    /\ LET c == Initiated(outcome, loc, "config_put", "Failed to initiate config upload")
       IN  /\ pc' = c.pc
           /\ err' = c.err
           /\ location' = c.location
    /\ UNCHANGED storeVars
    /\ UNCHANGED <<reference, resolved, idx, layerFiles, final_layers, image, regBlobs,
                   manifest, outDirExists, outFiles>>

UploadConfigPut ==
    /\ pc = "config_put"
    /\ LET config_json == SerdeToVec(Img.config)
           config_digest == Sha256(config_json)
       IN  reqs' = Append(reqs, Request("PUT", location[1], config_digest, config_json, <<>>))
    /\ pc' = "config_put_wait"
    /\ UNCHANGED storeVars
    /\ UNCHANGED <<reference, resolved, idx, location, err, layerFiles, final_layers, image,
                   regBlobs, manifest, outDirExists, outFiles>>

UploadConfigPutResp(outcome) ==
    /\ pc = "config_put_wait"
    /\ reqs' = Answered(outcome, <<>>, <<>>, <<>>)
    /\ LET c == CheckStatus(outcome, "upload_manifest", "Failed to upload config")
       IN  /\ pc' = c.pc
           /\ err' = c.err
    /\ regBlobs' = IF outcome = "ok" THEN regBlobs \cup {LastReq.digest} ELSE regBlobs
    /\ UNCHANGED storeVars
    /\ UNCHANGED <<reference, resolved, idx, location, layerFiles, final_layers, image,
                   manifest, outDirExists, outFiles>>

\* create_manifest, then upload_manifest: PUT to the tag's manifest url.
UploadManifestPut ==
    /\ pc = "upload_manifest"
    /\ LET config_digest == Sha256(SerdeToVec(Img.config))
           m == create_manifest(Img.config, Img.layers, config_digest)
       IN  reqs' = Append(reqs, Request("PUT", ManifestUrl(R.registry_url, R.repo, R.tag),
                                        <<>>, NoBytes, <<m>>))
    /\ pc' = "manifest_put_wait"
    /\ UNCHANGED storeVars
    /\ UNCHANGED <<reference, resolved, idx, location, err, layerFiles, final_layers, image,
                   regBlobs, manifest, outDirExists, outFiles>>

UploadManifestPutResp(outcome) ==
    /\ pc = "manifest_put_wait"
    /\ reqs' = Answered(outcome, <<>>, <<>>, <<>>)
    /\ LET c == CheckStatus(outcome, "done", "Failed to upload manifest")
       IN  /\ pc' = c.pc
           /\ err' = c.err
    /\ UNCHANGED storeVars
    /\ UNCHANGED <<reference, resolved, idx, location, layerFiles, final_layers, image,
                   regBlobs, manifest, outDirExists, outFiles>>

-----------------------------------------------------------------------------
(* The build and push commands.                                            *)

NoFiles == [name \in {} |-> NoBytes]

Init ==
    /\ reference = <<>>
    /\ resolved = <<>>
    /\ pc = "idle"
    /\ idx = 0
    /\ reqs = <<>>
    /\ location = <<>>
    /\ err = "none"
    /\ layerFiles = <<>>
    /\ final_layers = <<>>
    /\ image = <<>>
    /\ regBlobs = {}
    /\ manifest = <<>>
    /\ outDirExists = FALSE
    /\ outFiles = NoFiles
    /\ images = NoImages
    /\ imagesDir = TRUE
    /\ saved = NoImages
    /\ result = NoResult
    /\ writing = <<>>
    /\ dockerfile = <<>>

Next ==
    \/ BuildStart
    \/ \E data \in Data : BuildLayer(data)
    \/ \E image_name \in CommandRefs : BuildFinish(image_name)
    \/ \E image_name \in CommandRefs : PushImage(image_name)
    \/ UploadLayerPost
    \/ \E outcome \in Outcomes, loc \in Locations \cup {NoLocation} :
          UploadLayerPostResp(outcome, loc)
    \/ UploadLayerPut
    \/ \E outcome \in Outcomes : UploadLayerPutResp(outcome)
    \/ UploadConfigPost
    \/ \E outcome \in Outcomes, loc \in Locations \cup {NoLocation} :
          UploadConfigPostResp(outcome, loc)
    \/ UploadConfigPut
    \/ \E outcome \in Outcomes : UploadConfigPutResp(outcome)
    \/ UploadManifestPut
    \/ \E outcome \in Outcomes : UploadManifestPutResp(outcome)

Spec == Init /\ [][Next]_vars

-----------------------------------------------------------------------------
(* registry_client.rs: pull.                                               *)

\* The descriptors a served manifest is made of: the digest and size of a
\* byte string of Data.  What the registry then serves for that digest is
\* any byte string of Data.
ServedLayers == {Descriptor("ImageLayerGzip", Len(d), Sha256(d)) : d \in Data}
ServedConfigs == {Descriptor("ImageConfig", Len(d), Sha256(d)) : d \in Data}

SeqsUpTo(S, n) == UNION {[1..k -> S] : k \in 0..n}

\* The manifest documents a registry answers with; <<>> stands for a body
\* serde_json cannot parse as an ImageManifest.
ServedManifests ==
    {[schema_version |-> 2, media_type |-> "ImageManifest", config |-> c, layers |-> ls] :
        c \in ServedConfigs, ls \in SeqsUpTo(ServedLayers, MaxLayers)}
Malformed == <<>>

M == manifest[1]

\* format!("{}/layer_{}.tar.gz", output_dir, digest_str.replace(":", "_")),
\* as a name in the output directory
LayerFileName(digest) ==
    <<"layer", "_">> \o Replace(digest, ":", "_") \o <<".", "tar", ".", "gz">>

\* format!("{}/config_{}.json", output_dir, digest_str.replace(":", "_"))
ConfigFileName(digest) ==
    <<"config", "_">> \o Replace(digest, ":", "_") \o <<".", "json">>

\* tokio::fs::write(name, bytes) in a directory holding files
WriteFile(files, name, bytes) ==
    [n \in DOMAIN files \cup {name} |-> IF n = name THEN bytes ELSE files[n]]

\* pull_image's order: the layer loop from descriptor i on (n descriptors),
\* then the config.
PullStep(i, n) == IF i <= n THEN "download_layer" ELSE "download_config"

\* pull_image starts: parse_image_name, then download_manifest.
PullImage(image_name) ==
    /\ Ended
    /\ reference' = image_name
    /\ resolved' = <<Resolve(image_name)>>
    /\ reqs' = <<>>
    /\ err' = "none"
    /\ manifest' = <<>>
    /\ idx' = 0
    /\ pc' = "download_manifest"
    /\ UNCHANGED storeVars
    /\ UNCHANGED <<location, layerFiles, final_layers, image, regBlobs, outDirExists, outFiles>>

\* download_manifest: GET the tag's manifest url.
DownloadManifestGet ==
    /\ pc = "download_manifest"
    /\ reqs' = Append(reqs, Request("GET", ManifestUrl(R.registry_url, R.repo, R.tag),
                                    <<>>, NoBytes, <<>>))
    /\ pc' = "manifest_get_wait"
    /\ UNCHANGED storeVars
    /\ UNCHANGED <<reference, resolved, idx, location, err, layerFiles, final_layers, image,
                   regBlobs, manifest, outDirExists, outFiles>>

\* download_manifest with the document not parsed: a body that is no
\* manifest reads as a manifest of no layers (a faulty variant).
ParsedUnchecked(outcome, body) ==
    LET c == CheckStatus(outcome, "parsed", "Failed to download manifest")
    IN  IF c.pc = "failed" THEN [pc |-> c.pc, err |-> c.err, manifest |-> <<>>]
        ELSE IF body = Malformed
             THEN [pc |-> PullStep(1, 0), err |-> c.err,
                   manifest |-> <<[schema_version |-> 2, media_type |-> "ImageManifest",
                                   config |-> CHOOSE c2 \in ServedConfigs : TRUE,
                                   layers |-> <<>>]>>]
             ELSE [pc |-> PullStep(1, Len(body[1].layers)), err |-> c.err, manifest |-> body]

\* download_manifest after the response: the status check, then
\* serde_json::from_slice; pull_image then enters its layer loop.
Parsed(outcome, body) ==
    LET c == CheckStatus(outcome, "parsed", "Failed to download manifest")
    IN  IF c.pc = "failed" THEN [pc |-> c.pc, err |-> c.err, manifest |-> <<>>]
        ELSE IF body = Malformed
             THEN [pc |-> "failed", err |-> "Failed to parse manifest", manifest |-> <<>>]
             ELSE [pc |-> PullStep(1, Len(body[1].layers)), err |-> c.err, manifest |-> body]

DownloadManifestResp(outcome, body) ==
    /\ pc = "manifest_get_wait"
    /\ reqs' = Answered(outcome, <<>>, <<>>, body)
    /\ LET c == Parsed(outcome, body)
       IN  /\ pc' = c.pc
           /\ err' = c.err
           /\ manifest' = c.manifest
    /\ idx' = 1
    /\ UNCHANGED storeVars
    /\ UNCHANGED <<reference, resolved, location, layerFiles, final_layers, image,
                   regBlobs, outDirExists, outFiles>>

\* download_layer: GET the blob of the idx-th layer descriptor.
DownloadLayerGet ==
    /\ pc = "download_layer"
    /\ reqs' = Append(reqs, Request("GET", BlobUrl(R.registry_url, R.repo, M.layers[idx].digest),
                                    <<>>, NoBytes, <<>>))
    /\ pc' = "layer_get_wait"
    /\ UNCHANGED storeVars
    /\ UNCHANGED <<reference, resolved, idx, location, err, layerFiles, final_layers, image,
                   regBlobs, manifest, outDirExists, outFiles>>

\* download_layer after the response: the status check, create_dir_all,
\* then the bytes written under the digest's file name.
DownloadLayerResp(outcome, layer_data) ==
    /\ pc = "layer_get_wait"
    /\ reqs' = Answered(outcome, <<>>, <<layer_data>>, <<>>)
    /\ LET c == CheckStatus(outcome, PullStep(idx + 1, Len(M.layers)),
                            "Failed to download layer")
       IN  /\ pc' = c.pc
           /\ err' = c.err
           /\ outDirExists' = IF c.pc = "failed" THEN outDirExists ELSE TRUE
           /\ outFiles' = IF c.pc = "failed" THEN outFiles
                          ELSE WriteFile(outFiles, LayerFileName(M.layers[idx].digest),
                                         layer_data)
    /\ idx' = idx + 1
    /\ UNCHANGED storeVars
    /\ UNCHANGED <<reference, resolved, location, layerFiles, final_layers, image,
                   regBlobs, manifest>>

\* download_config: GET the blob of the config descriptor.
DownloadConfigGet ==
    /\ pc = "download_config"
    /\ reqs' = Append(reqs, Request("GET", BlobUrl(R.registry_url, R.repo, M.config.digest),
                                    <<>>, NoBytes, <<>>))
    /\ pc' = "config_get_wait"
    /\ UNCHANGED storeVars
    /\ UNCHANGED <<reference, resolved, idx, location, err, layerFiles, final_layers, image,
                   regBlobs, manifest, outDirExists, outFiles>>

\* download_config after the response: the status check, then the bytes
\* written under the digest's file name.  The directory is not created
\* here: tokio::fs::write fails when it does not exist.
DownloadConfigResp(outcome, config_data) ==
    /\ pc = "config_get_wait"
    /\ reqs' = Answered(outcome, <<>>, <<config_data>>, <<>>)
    /\ LET c == CheckStatus(outcome, "done", "Failed to download config")
       IN  IF c.pc = "failed"
           THEN pc' = c.pc /\ err' = c.err /\ outFiles' = outFiles
           ELSE IF outDirExists
                THEN /\ pc' = c.pc
                     /\ err' = c.err
                     /\ outFiles' = WriteFile(outFiles, ConfigFileName(M.config.digest),
                                              config_data)
                ELSE /\ pc' = "failed"
                     /\ err' = "No such file or directory"
                     /\ outFiles' = outFiles
    /\ UNCHANGED storeVars
    /\ UNCHANGED <<reference, resolved, idx, location, layerFiles, final_layers, image,
                   regBlobs, manifest, outDirExists>>

\* The pull command, into an output directory that may or may not exist.
InitPull ==
    /\ reference = <<>>
    /\ resolved = <<>>
    /\ pc = "idle"
    /\ idx = 0
    /\ reqs = <<>>
    /\ location = <<>>
    /\ err = "none"
    /\ layerFiles = <<>>
    /\ final_layers = <<>>
    /\ image = <<>>
    /\ regBlobs = {}
    /\ manifest = <<>>
    /\ outDirExists \in BOOLEAN
    /\ outFiles = NoFiles
    /\ images = NoImages
    /\ imagesDir = TRUE
    /\ saved = NoImages
    /\ result = NoResult
    /\ writing = <<>>
    /\ dockerfile = <<>>

NextPull ==
    \/ \E image_name \in CommandRefs : PullImage(image_name)
    \/ DownloadManifestGet
    \/ \E outcome \in Outcomes, body \in {<<m>> : m \in ServedManifests} \cup {Malformed} :
          DownloadManifestResp(outcome, body)
    \/ DownloadLayerGet
    \/ \E outcome \in Outcomes, layer_data \in Data : DownloadLayerResp(outcome, layer_data)
    \/ DownloadConfigGet
    \/ \E outcome \in Outcomes, config_data \in Data : DownloadConfigResp(outcome, config_data)

SpecPull == InitPull /\ [][NextPull]_vars

-----------------------------------------------------------------------------
(* The resolver on its own: every reference of at most MaxRefLen tokens,   *)
(* and the references the specification names.                             *)

RefWords == {"a", "localhost", "http"}
RefTokens == RefWords \cup {".", ":", "/"}

\* Token sequences that are the tokens of a string: no two words in a row.
WellFormed(s) == \A i \in 1..(Len(s) - 1) : ~(s[i] \in RefWords /\ s[i+1] \in RefWords)

RefExamples ==
    {<<"myimage">>,
     <<"localhost", ":", "5000", "/", "myimage", ":", "v2">>,
     <<"docker", ".", "io", "/", "library", "/", "alpine">>,
     <<"localhost", ":", "5000", "/", "myimage">>,
     <<"127", ".", "0", ".", "0", ".", "1", ":", "5000", "/", "myimage", ":", "v2">>,
     <<"http", ":", "/", "/", "localhost", ":", "5000", "/", "myimage", ":", "v2">>,
     <<"https", ":", "/", "/", "ghcr", ".", "io", "/", "myimage", ":", "v2">>}

RefInputs == {s \in SeqsUpTo(RefTokens, MaxRefLen) : WellFormed(s)} \cup RefExamples

InitResolve ==
    /\ reference \in RefInputs
    /\ resolved = <<>>
    /\ pc = "idle"
    /\ idx = 0
    /\ reqs = <<>>
    /\ location = <<>>
    /\ err = "none"
    /\ layerFiles = <<>>
    /\ final_layers = <<>>
    /\ image = <<>>
    /\ regBlobs = {}
    /\ manifest = <<>>
    /\ outDirExists = FALSE
    /\ outFiles = NoFiles
    /\ images = NoImages
    /\ imagesDir = TRUE
    /\ saved = NoImages
    /\ result = NoResult
    /\ writing = <<>>
    /\ dockerfile = <<>>

\* extract_registry_url, RegistryClient::new and parse_image_name applied
\* to the reference, as push_command and pull_command apply them.
ResolveReference ==
    /\ resolved = <<>>
    /\ resolved' = <<Resolve(reference)>>
    /\ UNCHANGED storeVars
    /\ UNCHANGED <<reference, pc, idx, reqs, location, err, layerFiles, final_layers,
                   image, regBlobs, manifest, outDirExists, outFiles>>

NextResolve == ResolveReference

SpecResolve == InitResolve /\ [][NextResolve]_vars

-----------------------------------------------------------------------------
(* storage/mod.rs create_layer, write by write, in a process that may stop *)
(* at any point.                                                           *)

\* What the storage calls and the parser never touch.
clientVars == <<reference, resolved, idx, reqs, location, err, final_layers, image,
                regBlobs, manifest, outDirExists, outFiles>>

\* create_layer up to fs::write's open of layers/<id>.tar.gz: the digest, the
\* id and the compressed bytes are computed, the file is created empty
\* under its final name.
CreateLayerOpen(data) ==
    /\ pc = "idle"
    /\ Len(layerFiles) < MaxFiles
    /\ LET made == create_layer(data, NewUuid)
       IN  writing' = <<[layer |-> made.layer, bytes |-> made.compressed_data]>>
    /\ layerFiles' = Append(layerFiles, <<>>)
    /\ pc' = "create_layer"
    /\ UNCHANGED <<images, imagesDir, saved, result, dockerfile>>
    /\ UNCHANGED clientVars

\* fs::write's write_all: the next byte reaches the file.
CreateLayerWrite ==
    /\ pc = "create_layer"
    /\ LET w == writing[1]
           written == Len(layerFiles[w.layer.path])
       IN  /\ written < Len(w.bytes)
           /\ layerFiles' = [layerFiles EXCEPT ![w.layer.path] =
                                Append(@, w.bytes[written + 1])]
    /\ UNCHANGED <<pc, images, imagesDir, saved, result, writing, dockerfile>>
    /\ UNCHANGED clientVars

\* fs::write returned: create_layer returns the Layer.
CreateLayerReturn ==
    /\ pc = "create_layer"
    /\ LET w == writing[1]
       IN  /\ Len(layerFiles[w.layer.path]) = Len(w.bytes)
           /\ result' = Returned("create_layer", <<>>, TRUE, <<w.layer>>)
    /\ writing' = <<>>
    /\ pc' = "idle"
    /\ UNCHANGED <<layerFiles, images, imagesDir, saved, dockerfile>>
    /\ UNCHANGED clientVars

\* The process stops in the middle of create_layer: what it held in memory
\* is gone, the files stay as they are.
Crash ==
    /\ pc = "create_layer"
    /\ writing' = <<>>
    /\ result' = NoResult
    /\ pc' = "idle"
    /\ UNCHANGED <<layerFiles, images, imagesDir, saved, dockerfile>>
    /\ UNCHANGED clientVars

InitBlobs == Init

NextBlobs ==
    \/ \E data \in Data : CreateLayerOpen(data)
    \/ CreateLayerWrite
    \/ CreateLayerReturn
    \/ Crash

SpecBlobs == InitBlobs /\ [][NextBlobs]_vars

-----------------------------------------------------------------------------
(* storage/mod.rs: the image records, called in any order.                 *)

\* The ids images are saved under.
ImageIds == {<<"i1">>, <<"i2">>}

\* The names images are saved under: a plain one, the same with white space
\* after it, one with a registry host and a tag.
StoreNames == {<<"a">>, <<"a", Space>>, <<"r", "/", "b", ":", "t">>}

\* The names looked up: those, a name no image has, and names no image has
\* that carry a ':' after their last '/'.
LookupNames == StoreNames \cup {<<"c">>, <<"r", "/", "c", ":", "t">>, <<"r", "/", ":", "t">>}

\* The layer lists of the images saved: none, or the layer of the one file
\* under layers/.
StoreData == <<1>>
StoreLayerLists == {<<>>, <<create_layer(StoreData, 1).layer>>}

StoreImages ==
    [id : ImageIds, name : StoreNames, layers : StoreLayerLists,
     config : {BuildConfig}, manifest : {BuildManifest}]

\* save_image: create_dir_all(images/<id>) makes images/ too.
SaveImage(img) ==
    /\ pc = "idle"
    /\ images' = save_image(images, img)
    /\ imagesDir' = TRUE
    /\ saved' = [id \in DOMAIN saved \cup {img.id} |-> IF id = img.id THEN img ELSE saved[id]]
    /\ result' = Returned("save_image", img.id, TRUE, <<>>)
    /\ UNCHANGED <<pc, layerFiles, writing, dockerfile>>
    /\ UNCHANGED clientVars

\* remove_image: Ok(()) on every path.  saved forgets the id removed, and
\* only that one.
RemoveImage(id) ==
    /\ pc = "idle"
    /\ images' = IF imagesDir THEN remove_image(images, id) ELSE images
    /\ imagesDir' = IF id = <<>> THEN FALSE ELSE imagesDir
    /\ saved' = [i \in DOMAIN saved \ {id} |-> saved[i]]
    /\ result' = Returned("remove_image", id, TRUE, <<>>)
    /\ UNCHANGED <<pc, layerFiles, writing, dockerfile>>
    /\ UNCHANGED clientVars

\* get_image: without images/ no image path exists, Ok(None).
GetImage(id) ==
    /\ pc = "idle"
    /\ LET r == IF imagesDir THEN get_image(images, id) ELSE [ok |-> TRUE, ret |-> <<>>]
       IN  result' = Returned("get_image", id, r.ok, r.ret)
    /\ UNCHANGED <<pc, layerFiles, images, imagesDir, saved, writing, dockerfile>>
    /\ UNCHANGED clientVars

\* get_image_by_name: list_images().await? fails without images/.
GetImageByName(name, image_ids) ==
    /\ pc = "idle"
    /\ LET r == IF imagesDir THEN get_image_by_name(images, name, image_ids) ELSE StorageErr
       IN  result' = Returned("get_image_by_name", name, r.ok, r.ret)
    /\ UNCHANGED <<pc, layerFiles, images, imagesDir, saved, writing, dockerfile>>
    /\ UNCHANGED clientVars

\* list_images: read_dir(images/) fails when the directory is not there,
\* else the ids in the order read_dir yields them.
ListImages(image_ids) ==
    /\ pc = "idle"
    /\ result' = IF imagesDir THEN Returned("list_images", <<>>, TRUE, <<image_ids>>)
                 ELSE Returned("list_images", <<>>, FALSE, <<>>)
    /\ UNCHANGED <<pc, layerFiles, images, imagesDir, saved, writing, dockerfile>>
    /\ UNCHANGED clientVars

\* An initialised store with one layer file and no image.
InitImages ==
    /\ reference = <<>>
    /\ resolved = <<>>
    /\ pc = "idle"
    /\ idx = 0
    /\ reqs = <<>>
    /\ location = <<>>
    /\ err = "none"
    /\ layerFiles = <<create_layer(StoreData, 1).compressed_data>>
    /\ final_layers = <<>>
    /\ image = <<>>
    /\ regBlobs = {}
    /\ manifest = <<>>
    /\ outDirExists = FALSE
    /\ outFiles = NoFiles
    /\ images = NoImages
    /\ imagesDir = TRUE
    /\ saved = NoImages
    /\ result = NoResult
    /\ writing = <<>>
    /\ dockerfile = <<>>

\* The ids remove_image and get_image are given: those of the images, and
\* the empty string.
GivenIds == ImageIds \cup {<<>>}

NextImages ==
    \/ \E img \in StoreImages : SaveImage(img)
    \/ \E id \in GivenIds : RemoveImage(id)
    \/ \E id \in GivenIds : GetImage(id)
    \/ \E name \in LookupNames, image_ids \in list_images(images) :
          GetImageByName(name, image_ids)
    \/ \E image_ids \in list_images(images) : ListImages(image_ids)

SpecImages == InitImages /\ [][NextImages]_vars

\* The same calls, remove_image never being given the empty id.
NextImagesNamedIds ==
    NextImages /\ ~(result'.op = "remove_image" /\ result'.arg = <<>>)

SpecImagesNamedIds == InitImages /\ [][NextImagesNamedIds]_vars

-----------------------------------------------------------------------------
(* dockerfile/mod.rs.  A line is the sequence of its words (what            *)
(* split_whitespace yields of the trimmed line): <<>> is a blank line, a   *)
(* line whose first word is "#" a comment.                                 *)

\* str::to_uppercase, on the words of the model.
ToUppercase(word) ==
    CASE word = "from" -> "FROM"
      [] word = "as" -> "AS"
      [] word = "run" -> "RUN"
      [] word = "arg" -> "ARG"
      [] OTHER -> word

\* String::new()
EmptyString == ""

\* An Err(..) of the parser.
ParseErr == [ok |-> FALSE, instruction |-> <<>>]

\* DockerfileParser::parse_from, args being the words after FROM.
parse_from(args) ==
    IF args = <<>> THEN ParseErr
    ELSE [ok |-> TRUE,
          instruction |-> <<[kind |-> "From",
                             image |-> args[1],
                             alias |-> IF Len(args) > 2 /\ ToUppercase(args[2]) = "AS"
                                       THEN <<args[3]>> ELSE <<>>]>>]

\* DockerfileParser::parse_line, for the instructions the lines of the model
\* use: FROM, RUN, ARG (without '=': no default) and the default arm, which
\* takes the whole line as a RUN command.
parse_line(line) ==
    LET instruction == ToUppercase(line[1])
        args_str == SubSeq(line, 2, Len(line))
    IN  CASE instruction = "FROM" -> parse_from(args_str)
          [] instruction = "RUN" ->
                [ok |-> TRUE, instruction |-> <<[kind |-> "Run", command |-> args_str]>>]
          [] instruction = "ARG" ->
                [ok |-> TRUE,
                 instruction |-> <<[kind |-> "Arg", key |-> args_str, default |-> <<>>]>>]
          [] OTHER ->
                [ok |-> TRUE, instruction |-> <<[kind |-> "Run", command |-> line]>>]

\* group_into_stages's loop from the i-th instruction on.
RECURSIVE GroupFrom(_, _, _, _, _)
GroupFrom(instructions, i, stages, current_stage_instructions, current_base_image) ==
    IF i > Len(instructions)
    THEN IF current_stage_instructions # <<>>
         THEN Append(stages, [name |-> <<>>,
                              base_image |-> current_base_image,
                              instructions |-> current_stage_instructions])
         ELSE stages
    ELSE IF instructions[i].kind = "From"
         THEN GroupFrom(instructions, i + 1,
                        IF current_stage_instructions # <<>>
                        THEN Append(stages, [name |-> instructions[i].alias,
                                             base_image |-> current_base_image,
                                             instructions |-> current_stage_instructions])
                        ELSE stages,
                        <<>>, instructions[i].image)
         ELSE GroupFrom(instructions, i + 1, stages,
                        Append(current_stage_instructions, instructions[i]),
                        current_base_image)

\* DockerfileParser::group_into_stages
group_into_stages(instructions) == GroupFrom(instructions, 1, <<>>, <<>>, EmptyString)

\* parse's filter: the lines that are neither blank nor comments.
IsInstructionLine(line) == line # <<>> /\ line[1] # "#"
FilteredLines(content) == SelectSeq(content, IsInstructionLine)

\* DockerfileParser::parse: the first line that does not parse makes the
\* whole call fail; no ARG of the model has a default, args stays empty.
parse(content) ==
    LET lines == FilteredLines(content)
        parsed == [i \in 1..Len(lines) |-> parse_line(lines[i])]
    IN  IF \E i \in 1..Len(lines) : ~parsed[i].ok
        THEN [ok |-> FALSE, ret |-> <<>>]
        ELSE [ok |-> TRUE,
              ret |-> <<[stages |-> group_into_stages(
                                        [i \in 1..Len(lines) |-> parsed[i].instruction[1]]),
                         args |-> {}]>>]

\* The lines Dockerfiles are made of: blank, a comment that reads like a
\* FROM, FROM without and with alias (the latter in lower case), two other
\* instructions, a FROM without image.
DockerfileLines ==
    {<<>>,
     <<"#", "FROM", "c">>,
     <<"FROM", "a">>,
     <<"from", "b", "as", "x">>,
     <<"RUN", "make">>,
     <<"ARG", "k">>,
     <<"FROM">>}

Dockerfiles == SeqsUpTo(DockerfileLines, MaxLines)

InitParse ==
    /\ reference = <<>>
    /\ resolved = <<>>
    /\ pc = "idle"
    /\ idx = 0
    /\ reqs = <<>>
    /\ location = <<>>
    /\ err = "none"
    /\ layerFiles = <<>>
    /\ final_layers = <<>>
    /\ image = <<>>
    /\ regBlobs = {}
    /\ manifest = <<>>
    /\ outDirExists = FALSE
    /\ outFiles = NoFiles
    /\ images = NoImages
    /\ imagesDir = TRUE
    /\ saved = NoImages
    /\ result = NoResult
    /\ writing = <<>>
    /\ dockerfile \in Dockerfiles

\* DockerfileParser::parse(dockerfile)
Parse ==
    /\ result = NoResult
    /\ LET r == parse(dockerfile)
       IN  result' = Returned("parse", <<>>, r.ok, r.ret)
    /\ UNCHANGED <<pc, layerFiles, images, imagesDir, saved, writing, dockerfile>>
    /\ UNCHANGED clientVars

NextParse == Parse

SpecParse == InitParse /\ [][NextParse]_vars

-----------------------------------------------------------------------------
(* Reference resolution: C7 to C10, under SpecResolve.                     *)

\* The resolution rules as the specification words them: the host / rest
\* split is made first, the tag is then cut from the rest.
RefHead(ref) == IF Contains(ref, "/") THEN SubSeq(ref, 1, Find(ref, "/") - 1) ELSE ref
RefRest(ref) == IF Contains(ref, "/") THEN SubSeq(ref, Find(ref, "/") + 1, Len(ref)) ELSE <<>>
FinalSegment(ref) == SubSeq(ref, RFind(ref, "/") + 1, Len(ref))
HasHost(ref) ==
    Contains(ref, "/") /\ (Contains(RefHead(ref), ".") \/ Contains(RefHead(ref), ":"))
HasExplicitTag(ref) == Contains(FinalSegment(ref), ":")
AfterLastColon(s) == SubSeq(s, RFind(s, ":") + 1, Len(s))
MinusTag(s) == IF Contains(s, ":") THEN SubSeq(s, 1, RFind(s, ":") - 1) ELSE s
IsLocal(head) == StartsWith(head, <<"localhost", ":">>)
                 \/ StartsWith(head, <<"127", ".", "0", ".", "0", ".", "1", ":">>)
SchemeFor(head) == IF IsLocal(head) THEN <<"http", ":", "/", "/">>
                   ELSE <<"https", ":", "/", "/">>
DefaultEndpoint == <<"https", ":", "/", "/", "registry-1", ".", "docker", ".", "io">>

RuleEndpoint(ref) ==
    IF HasHost(ref) THEN SchemeFor(RefHead(ref)) \o RefHead(ref) ELSE DefaultEndpoint
RuleRepository(ref) ==
    IF HasHost(ref) THEN MinusTag(RefRest(ref)) ELSE <<"library", "/">> \o MinusTag(ref)
RuleTag(ref) == IF Contains(ref, ":") THEN AfterLastColon(ref) ELSE <<"latest">>

Resolved(endpoint, repository, tag) ==
    /\ R.ok
    /\ R.registry_url = endpoint
    /\ R.repo = repository
    /\ R.tag = tag

\* C7: every reference that carries an explicit tag (a ':' in its final
\* path segment) or has no host resolves by the rules: a host (the text
\* before the first '/' when it contains '.' or ':') gives endpoint
\* http://host for localhost:* and 127.0.0.1:*, https://host otherwise, and
\* repository = the rest minus the tag; no host gives the default endpoint
\* and repository library/<name>; the tag is the text after the last ':',
\* or latest.  And the three resolutions the specification lists hold.
C7_ResolutionRules ==
    resolved # <<>> =>
        /\ (HasExplicitTag(reference) \/ ~HasHost(reference)) =>
              Resolved(RuleEndpoint(reference), RuleRepository(reference), RuleTag(reference))
        /\ reference = <<"myimage">> =>
              Resolved(DefaultEndpoint, <<"library", "/", "myimage">>, <<"latest">>)
        /\ reference = <<"localhost", ":", "5000", "/", "myimage", ":", "v2">> =>
              Resolved(<<"http", ":", "/", "/", "localhost", ":", "5000">>,
                       <<"myimage">>, <<"v2">>)
        /\ reference = <<"docker", ".", "io", "/", "library", "/", "alpine">> =>
              Resolved(<<"https", ":", "/", "/", "docker", ".", "io">>,
                       <<"library", "/", "alpine">>, <<"latest">>)

\* A reference with a port in its host and a tag has been resolved.
C7_Witness ==
    /\ resolved # <<>>
    /\ reference = <<"localhost", ":", "5000", "/", "myimage", ":", "v2">>
    /\ R.repo = <<"myimage">>

\* C8: a reference host:port/path with no ':' in its final path segment
\* resolves to tag latest, to the path after the first '/' as repository and
\* to the endpoint of host:port.
C8_HostColonIsPort ==
    (/\ resolved # <<>>
     /\ Contains(reference, "/")
     /\ Contains(RefHead(reference), ":")
     /\ ~Contains(FinalSegment(reference), ":"))
    => /\ R.tag = <<"latest">>
       /\ R.repo = RefRest(reference)
       /\ R.registry_url = SchemeFor(RefHead(reference)) \o RefHead(reference)

\* C9: resolution fails exactly when the reference is empty.
C9_FailsIffEmpty ==
    resolved # <<>> => (R.ok <=> reference # <<>>)

\* The text of a scheme-qualified reference up to the first '/' after its
\* "://": the scheme and the host, as written.
SchemeAndHost(ref) ==
    LET after == SubSeq(ref, 5, Len(ref))
    IN  SubSeq(ref, 1, 4) \o RefHead(after)

\* C10: a reference that starts with http:// or https:// resolves to the
\* endpoint made of that scheme and the host, as written.
C10_SchemeKept ==
    (/\ resolved # <<>>
     /\ \/ StartsWith(reference, <<"http", ":", "/", "/">>)
        \/ StartsWith(reference, <<"https", ":", "/", "/">>))
    => R.registry_url = SchemeAndHost(reference)

-----------------------------------------------------------------------------
(* Push: C1 to C4, under Spec.                                             *)

UploadsEndpoint ==
    R.registry_url \o <<"/", "v2", "/">> \o R.repo \o <<"/", "blobs", "/", "uploads">>
ManifestEndpoint ==
    R.registry_url \o <<"/", "v2", "/">> \o R.repo \o <<"/", "manifests", "/">> \o R.tag

\* A POST to the repository's upload initiation endpoint (with or without
\* the trailing slash: the layer's has it, the config's has not).
IsUploadInit(r) == r.method = "POST" /\ TrimEndMatches(r.url, "/") = UploadsEndpoint
IsBlobPut(r) == r.method = "PUT" /\ r.digest # <<>>
IsManifestPut(r) == r.method = "PUT" /\ r.url = ManifestEndpoint /\ r.doc # <<>>

\* The location an upload initiation returned, relative ones taken from
\* the registry endpoint.
ReturnedLocation(r) ==
    IF r.loc[1][1] \in {"http", "https"} THEN r.loc[1] ELSE R.registry_url \o r.loc[1]

\* reqs[p], reqs[p+1] are the two steps of the upload of these bytes.
IsUploadOf(p, digest, bytes) ==
    /\ IsUploadInit(reqs[p])
    /\ IsBlobPut(reqs[p + 1])
    /\ reqs[p + 1].digest = digest
    /\ reqs[p + 1].body = bytes

ConfigBytes == SerdeToVec(Img.config)

\* C1: a manifest PUT is issued only after the upload (POST and PUT) of
\* every layer and of the config has returned success, and no blob upload
\* request follows it.
C1_ManifestAfterBlobs ==
    \A i \in 1..Len(reqs) :
        IsManifestPut(reqs[i]) =>
            /\ \A j \in 1..(i - 1) : reqs[j].status = "ok"
            /\ \A k \in 1..Len(Img.layers) :
                  \E p \in 1..(i - 2) :
                      IsUploadOf(p, Img.layers[k].digest, layerFiles[Img.layers[k].path])
            /\ \E p \in 1..(i - 2) : IsUploadOf(p, Sha256(ConfigBytes), ConfigBytes)
            /\ Cardinality({p \in 1..(i - 1) : IsBlobPut(reqs[p])}) = Len(Img.layers) + 1
            /\ \A j \in (i + 1)..Len(reqs) : ~IsUploadInit(reqs[j]) /\ ~IsBlobPut(reqs[j])

\* The manifest PUT of a two-layer image is in flight.
C1_Witness ==
    /\ pc = "manifest_put_wait"
    /\ Len(Img.layers) = 2
    /\ IsManifestPut(LastReq)

\* C2: a request that came back with a non-success status is the last
\* request of the push (nothing is sent after it, it is not sent again) and
\* the push has returned an error.
C2_FailureStopsPush ==
    \A i \in 1..Len(reqs) :
        reqs[i].status = "bad" =>
            /\ i = Len(reqs)
            /\ pc = "failed"
            /\ err # "none"

\* The blob PUT of the first layer was refused; the push has stopped there.
C2_Witness ==
    /\ pc = "failed"
    /\ Len(reqs) = 2
    /\ IsBlobPut(reqs[2])
    /\ reqs[2].status = "bad"
    /\ Len(Img.layers) = 2

C4_DigestOfStoredBytes ==
    /\ \A k \in 1..Len(final_layers) :
          final_layers[k].digest = Sha256(layerFiles[final_layers[k].path])
    /\ \A i \in 1..Len(reqs) :
          IsBlobPut(reqs[i]) => reqs[i].digest = Sha256(reqs[i].body)

-----------------------------------------------------------------------------
(* Pull: C5 and C6, under SpecPull.                                        *)

BlobsEndpoint == R.registry_url \o <<"/", "v2", "/">> \o R.repo \o <<"/", "blobs", "/">>

\* The digest the i-th request of a pull must ask for, i >= 2: the layer
\* descriptors of the served manifest in order, then its config descriptor.
DigestAsked(i) ==
    LET m == reqs[1].rdoc[1]
    IN  IF i - 1 <= Len(m.layers) THEN m.layers[i - 1].digest ELSE m.config.digest

\* The file the i-th request's bytes belong in.
FileAsked(i) ==
    LET m == reqs[1].rdoc[1]
    IN  IF i - 1 <= Len(m.layers)
        THEN <<"layer", "_", "sha256", "_", DigestAsked(i)[3], ".", "tar", ".", "gz">>
        ELSE <<"config", "_", "sha256", "_", DigestAsked(i)[3], ".", "json">>

C5_Order ==
    /\ Len(reqs) >= 1 => reqs[1].method = "GET" /\ reqs[1].url = ManifestEndpoint
    /\ \A i \in 2..Len(reqs) :
          /\ reqs[1].status = "ok"
          /\ reqs[1].rdoc # <<>>
          /\ reqs[i - 1].status = "ok"
          /\ i - 1 <= Len(reqs[1].rdoc[1].layers) + 1
          /\ reqs[i].method = "GET"
          /\ reqs[i].url = BlobsEndpoint \o DigestAsked(i)
    /\ \A i \in 1..Len(reqs) :
          (reqs[i].status \in {"bad", "neterr"} \/ (i = 1 /\ reqs[1].status = "ok"
                                                      /\ reqs[1].rdoc = <<>>))
          => i = Len(reqs) /\ pc = "failed" /\ err # "none"
    /\ pc = "done" => Len(reqs) = Len(reqs[1].rdoc[1].layers) + 2

C5_WritesOnlyAfterManifest ==
    (outFiles' # outFiles \/ outDirExists' # outDirExists)
    => /\ Len(reqs') >= 2
       /\ reqs'[1].status = "ok"
       /\ reqs'[1].rdoc # <<>>
       /\ reqs'[Len(reqs')].status = "ok"

\* C5: the manifest GET is the first request of a pull; blob GETs follow
\* only a manifest fetched with success and parsed, one per layer descriptor
\* in manifest order, then the config's; a manifest GET that fails or
\* serves a malformed document ends the pull with no blob GET and no file
\* written; a failed blob GET is the last request.
C5_PullOrder == []C5_Order /\ [][C5_WritesOnlyAfterManifest]_vars

\* A pull of a two-layer manifest has succeeded.
C5_Witness ==
    /\ pc = "done"
    /\ Len(M.layers) = 2
    /\ Len(reqs) = 4
    /\ M.layers[1].digest # M.layers[2].digest

\* C6: whenever a blob GET has returned success, whatever its bytes, the
\* pull has not failed on it and the digest-derived file holds the served
\* bytes (until a later blob of the same digest is written over them).
C6_MismatchAccepted ==
    \A i \in 2..Len(reqs) :
        reqs[i].status = "ok" =>
            /\ ~(pc = "failed" /\ i = Len(reqs))
            /\ (\A j \in (i + 1)..Len(reqs) :
                    ~(reqs[j].status = "ok" /\ FileAsked(j) = FileAsked(i)))
               => /\ FileAsked(i) \in DOMAIN outFiles
                  /\ outFiles[FileAsked(i)] = reqs[i].served[1]


\* What remains of C6 once the output directory exists when a blob comes in.
C6_AcceptedInExistingDirectory ==
    \A i \in 2..Len(reqs) :
        (reqs[i].status = "ok" /\ (outDirExists \/ pc # "failed")) =>
            /\ ~(pc = "failed" /\ i = Len(reqs))
            /\ (\A j \in (i + 1)..Len(reqs) :
                    ~(reqs[j].status = "ok" /\ FileAsked(j) = FileAsked(i)))
               => /\ FileAsked(i) \in DOMAIN outFiles
                  /\ outFiles[FileAsked(i)] = reqs[i].served[1]

\* A blob whose bytes do not hash to its descriptor's digest was written.
C6_MismatchWritten ==
    \E i \in 2..Len(reqs) :
        /\ reqs[i].status = "ok"
        /\ Sha256(reqs[i].served[1]) # DigestAsked(i)
        /\ FileAsked(i) \in DOMAIN outFiles
        /\ outFiles[FileAsked(i)] = reqs[i].served[1]
        /\ pc = "done"

-----------------------------------------------------------------------------
(* The layer store, the manifest of a push and the manifest of a build:    *)
(* C11, C13 and C18, under Spec.                                           *)

\* C11: storing the same bytes twice is idempotent: two create_layer calls
\* with the same input return the same digest, and layers/ never holds two
\* files of the same content.
C11_PutIdempotent ==
    /\ \A k, l \in 1..Len(final_layers) :
          layerFiles[final_layers[k].path] = layerFiles[final_layers[l].path]
          => final_layers[k].digest = final_layers[l].digest
    /\ \A i, j \in 1..Len(layerFiles) : layerFiles[i] = layerFiles[j] => i = j

\* C13: the manifest a push sends for an image of layers L1..Ln lists
\* exactly n layer descriptors, the i-th with the digest and size recorded on
\* Li, and one config descriptor whose digest and size are those of the
\* bytes the config blob PUT before it sent; an image of no layers gets its
\* manifest too, not an error.
C13_ManifestAssembly ==
    /\ \A i \in 1..Len(reqs) :
          reqs[i].doc # <<>> =>
              LET m == reqs[i].doc[1]
              IN  /\ Len(m.layers) = Len(Img.layers)
                  /\ \A k \in 1..Len(Img.layers) :
                        /\ m.layers[k].digest = Img.layers[k].digest
                        /\ m.layers[k].size = Img.layers[k].size
                        /\ m.layers[k].media_type = "ImageLayerGzip"
                  /\ i > 1
                  /\ IsBlobPut(reqs[i - 1])
                  /\ reqs[i - 1].body = ConfigBytes
                  /\ m.config.digest = Sha256(reqs[i - 1].body)
                  /\ m.config.digest = reqs[i - 1].digest
                  /\ m.config.size = Len(reqs[i - 1].body)
                  /\ m.config.media_type = "ImageConfig"
    /\ (pc = "manifest_put_wait" /\ Len(Img.layers) = 0)
       => LastReq.doc # <<>> /\ LastReq.doc[1].layers = <<>>

\* The manifest of an image of two layers of different content was sent and
\* accepted.
C13_Witness ==
    /\ pc = "done"
    /\ Len(Img.layers) = 2
    /\ Img.layers[1].digest # Img.layers[2].digest
    /\ LastReq.doc # <<>>
    /\ Len(LastReq.doc[1].layers) = 2

\* The manifest of an image of no layers was sent and accepted.
C13_ZeroLayerManifest ==
    /\ pc = "done"
    /\ Len(Img.layers) = 0
    /\ LastReq.doc # <<>>

\* C18: the manifest of the Image build_image returned and saved has one
\* layer descriptor per layer of the image, in order, with that layer's
\* digest; the saved manifest is that manifest; every digest it references
\* is the digest recorded on a layer whose file is in layers/.
C18_ManifestReferencesLayers ==
    image # <<>> =>
        /\ Len(Img.manifest.layers) = Len(Img.layers)
        /\ \A k \in 1..Len(Img.layers) : Img.manifest.layers[k].digest = Img.layers[k].digest
        /\ Img.id \in DOMAIN images
        /\ FromStr(images[Img.id].manifest_json).value = Img.manifest
        /\ \A k \in 1..Len(Img.manifest.layers) :
              \E l \in 1..Len(Img.layers) :
                  /\ Img.layers[l].digest = Img.manifest.layers[k].digest
                  /\ Img.layers[l].path \in 1..Len(layerFiles)

-----------------------------------------------------------------------------
(* Crashes during create_layer: C12, under SpecBlobs.                      *)

\* The file holds all the bytes create_layer writes for some input.
Complete(file) == \E data \in Data : file = Gzip(data)

\* C12: blob writes are atomic with respect to crashes: every file under
\* layers/ that no running create_layer is still writing is complete, so a
\* process that stopped during create_layer left either no file or a
\* complete one under the final name.
C12_AtomicWrite ==
    \A id \in 1..Len(layerFiles) :
        (writing = <<>> \/ writing[1].layer.path # id) => Complete(layerFiles[id])

-----------------------------------------------------------------------------
(* The image records: C14, C15 and C16, under SpecImages.                  *)

\* The ids of the persisted images whose stored name is the name.
StoredUnder(name) == {id \in DOMAIN images : images[id].name_txt = name}

LookedUp == result.op = "get_image_by_name"

\* C14: name lookup fails closed: get_image_by_name(name) returns an image
\* only if the stored name of some persisted image equals name, and that
\* image; when no stored name equals name it returns None.
C14_LookupFailsClosed ==
    LookedUp =>
        /\ result.ret # <<>> => result.ret[1].id \in StoredUnder(result.arg)
        /\ StoredUnder(result.arg) = {} => result.ok /\ result.ret = <<>>

\* C15: after save_image(img), img not removed since and no other persisted
\* image of the same name, get_image_by_name(img.name) returns an image of
\* id img.id.
C15_NameResolvesToId ==
    LookedUp =>
        \A id \in DOMAIN saved :
            (saved[id].name = result.arg /\ StoredUnder(result.arg) = {id})
            => /\ result.ok
               /\ result.ret # <<>>
               /\ result.ret[1].id = id

\* What remains of C15 for names without white space at their ends, no
\* other stored name being the same once trimmed.
C15_ResolvesTrimmedNames ==
    LookedUp =>
        \A id \in DOMAIN saved :
            (/\ saved[id].name = result.arg
             /\ Trim(result.arg) = result.arg
             /\ {i \in DOMAIN images : Trim(images[i].name_txt) = result.arg} = {id})
            => /\ result.ok
               /\ result.ret # <<>>
               /\ result.ret[1].id = id

\* C16: after save_image(img), get_image(img.id) returns an Image of the
\* same id, name, layer list, config and manifest as img.
C16_ImageRoundTrip ==
    (result.op = "get_image" /\ result.arg \in DOMAIN saved) =>
        /\ result.ok
        /\ result.ret # <<>>
        /\ result.ret[1].id = saved[result.arg].id
        /\ result.ret[1].config = saved[result.arg].config
        /\ result.ret[1].manifest = saved[result.arg].manifest
        /\ result.ret[1].name = saved[result.arg].name
        /\ result.ret[1].layers = saved[result.arg].layers

\* What does round-trip, of an image whose directory is still there: the
\* id, the config and the manifest.
C16_RecordRoundTrip ==
    (result.op = "get_image" /\ result.arg \in DOMAIN saved /\ result.arg \in DOMAIN images) =>
        /\ result.ok
        /\ result.ret # <<>>
        /\ result.ret[1].id = saved[result.arg].id
        /\ result.ret[1].config = saved[result.arg].config
        /\ result.ret[1].manifest = saved[result.arg].manifest

-----------------------------------------------------------------------------
(* The Dockerfile parser: C17 and C20, under SpecParse.                    *)

\* The Dockerfile's instruction lines, in order.
InstructionLines == SelectSeq(dockerfile, LAMBDA l : l # <<>> /\ l[1] # "#")

IsFrom(line) == line[1] \in {"FROM", "from"}
FromImage(line) == line[2]
FromAlias(line) ==
    IF Len(line) >= 4 /\ line[3] \in {"AS", "as"} THEN <<line[4]>> ELSE <<>>

FromLines == {i \in 1..Len(InstructionLines) : IsFrom(InstructionLines[i])}

\* The k-th smallest member of a set of numbers.
Kth(S, k) == CHOOSE x \in S : Cardinality({y \in S : y <= x}) = k

\* The last instruction line of the stage the FROM at line i opens.
StageEnd(i) ==
    IF \E j \in FromLines : j > i
    THEN Kth({j \in FromLines : j > i}, 1) - 1
    ELSE Len(InstructionLines)

\* Every FROM names an image and is followed by an instruction that is no
\* FROM.
EveryFromHasInstructions ==
    \A i \in FromLines :
        /\ Len(InstructionLines[i]) >= 2
        /\ i < Len(InstructionLines)
        /\ ~IsFrom(InstructionLines[i + 1])

Parsed1 == result.ret[1]

\* The stages are the FROMs, in order, each with the image of its FROM and
\* the instructions up to the next FROM.
OneStagePerFrom ==
    /\ result.ok
    /\ Len(Parsed1.stages) = Cardinality(FromLines)
    /\ \A k \in 1..Cardinality(FromLines) :
          LET i == Kth(FromLines, k)
              stage == Parsed1.stages[k]
          IN  /\ stage.base_image = FromImage(InstructionLines[i])
              /\ Len(stage.instructions) = StageEnd(i) - i
              /\ \A j \in 1..(StageEnd(i) - i) :
                    /\ stage.instructions[j].kind # "From"
                    /\ stage.instructions[j] = parse_line(InstructionLines[i + j]).instruction[1]

\* C17: for a Dockerfile in which every FROM is followed by at least one
\* instruction that is no FROM, parse yields one stage per FROM, in order,
\* with the base image of that FROM and exactly the instructions between it
\* and the next FROM; blank lines and comments contribute nothing.
C17_OneStagePerFrom ==
    (result.op = "parse" /\ EveryFromHasInstructions) => OneStagePerFrom

\* What remains of C17 when the Dockerfile's first instruction is a FROM.
C17_StagesWhenFromFirst ==
    (/\ result.op = "parse"
     /\ EveryFromHasInstructions
     /\ InstructionLines # <<>>
     /\ IsFrom(InstructionLines[1]))
    => OneStagePerFrom

\* A Dockerfile of two stages was parsed into its two stages.
C17_TwoStagesParsed ==
    /\ result.op = "parse"
    /\ EveryFromHasInstructions
    /\ Cardinality(FromLines) = 2
    /\ OneStagePerFrom

\* A Dockerfile of one stage with a comment and a blank line in it was
\* parsed into its stage.
C17_CommentsSkipped ==
    /\ result.op = "parse"
    /\ EveryFromHasInstructions
    /\ Cardinality(FromLines) = 1
    /\ Len(dockerfile) = Len(InstructionLines) + 2
    /\ \E i \in 1..Len(dockerfile) : dockerfile[i] = <<>>
    /\ \E i \in 1..Len(dockerfile) : dockerfile[i] # <<>> /\ dockerfile[i][1] = "#"
    /\ OneStagePerFrom

\* The lines that open a stage: 0 for the instructions before the first
\* FROM, else a FROM; a stage exists when an instruction that is no FROM
\* follows.
StageOpeners ==
    {i \in {0} \cup FromLines :
        i < Len(InstructionLines) /\ ~IsFrom(InstructionLines[i + 1])}

\* C20: each stage's name is the alias declared on its own FROM line, and
\* None exactly when that FROM declares none: the k-th stage is the one
\* the k-th stage-opening FROM opens and carries that FROM's alias.
C20_StageNameIsOwnAlias ==
    (result.op = "parse" /\ result.ok) =>
        /\ Len(Parsed1.stages) = Cardinality(StageOpeners)
        /\ \A k \in 1..Cardinality(StageOpeners) :
              LET i == Kth(StageOpeners, k)
              IN  Parsed1.stages[k].name =
                      IF i = 0 THEN <<>> ELSE FromAlias(InstructionLines[i])

\* What group_into_stages does instead: the k-th stage carries the alias of
\* the FROM that ends it, the last stage none.
C20_NameIsNextAlias ==
    (result.op = "parse" /\ result.ok) =>
        /\ Len(Parsed1.stages) = Cardinality(StageOpeners)
        /\ \A k \in 1..Cardinality(StageOpeners) :
              LET i == Kth(StageOpeners, k)
              IN  Parsed1.stages[k].name =
                      IF StageEnd(i) = Len(InstructionLines) THEN <<>>
                      ELSE FromAlias(InstructionLines[StageEnd(i) + 1])

-----------------------------------------------------------------------------
(* The output directory of a pull: C19, under SpecPull.                    *)

\* The manifest was served and parsed and every blob it lists, the config
\* last, was served with success.
AllBlobsServed ==
    /\ Len(reqs) >= 2
    /\ reqs[1].rdoc # <<>>
    /\ Len(reqs) = Len(reqs[1].rdoc[1].layers) + 2
    /\ \A i \in 1..Len(reqs) : reqs[i].status = "ok"

\* The pull succeeded and left every artifact in the output directory.
ArtifactsWritten ==
    /\ pc = "done"
    /\ err = "none"
    /\ outDirExists
    /\ \A i \in 2..Len(reqs) : FileAsked(i) \in DOMAIN outFiles

\* C19: pull_image creates the output directory when it does not exist,
\* whatever the number of layers: once the registry has served the manifest
\* and every blob, the pull has succeeded and the directory holds one
\* layer_<digest>.tar.gz per layer digest and the config_<digest>.json.
C19_OutputDirCreated == AllBlobsServed => ArtifactsWritten

\* What remains of C19 for manifests of at least one layer.
C19_CreatedWithLayers ==
    (AllBlobsServed /\ Len(reqs[1].rdoc[1].layers) >= 1) => ArtifactsWritten

\* A pull of two layers of different digests has succeeded and left three
\* files.
C19_TwoLayersPulled ==
    /\ AllBlobsServed
    /\ Len(reqs[1].rdoc[1].layers) = 2
    /\ ArtifactsWritten
    /\ Cardinality(DOMAIN outFiles) = 3

-----------------------------------------------------------------------------
(* Listing and removing images: C21, under SpecImages.                     *)

\* list_images returns exactly the ids saved and not removed since, each
\* once; get_image(id) returns an image iff id is one of them.
C21_ListAndGet ==
    /\ result.op = "list_images" =>
          /\ result.ok
          /\ {result.ret[1][i] : i \in 1..Len(result.ret[1])} = DOMAIN saved
          /\ Len(result.ret[1]) = Cardinality(DOMAIN saved)
    /\ result.op = "get_image" =>
          ((result.ok /\ result.ret # <<>>) <=> result.arg \in DOMAIN saved)

\* A remove_image(id) step succeeds, leaves every other image's record and
\* every file under layers/ as they were, and changes nothing at all when
\* id is not stored.
C21_RemoveFrame ==
    result'.op = "remove_image" =>
        /\ result'.ok
        /\ layerFiles' = layerFiles
        /\ \A id \in DOMAIN images \ {result'.arg} :
              id \in DOMAIN images' /\ images'[id] = images[id]
        /\ result'.arg \notin DOMAIN images => images' = images /\ imagesDir' = imagesDir

\* C21: after any sequence of save_image and remove_image calls on an
\* initialised store, list_images returns exactly the ids saved and not
\* removed afterwards and get_image(id) returns an image iff id is one of
\* them; remove_image of an id that is not stored succeeds and changes
\* nothing, and remove_image never changes another image's record nor a
\* file under layers/.
C21_ListGetRemove == []C21_ListAndGet /\ [][C21_RemoveFrame]_vars

\* Two images were saved, one was removed, and list_images returned the
\* other.
C21_OneLeftListed ==
    /\ result.op = "list_images"
    /\ result.ok
    /\ Cardinality(DOMAIN saved) = 1
    /\ Len(result.ret[1]) = 1
    /\ result.ret[1][1] \in DOMAIN saved
    /\ layerFiles # <<>>

====
